---- MODULE Spec2Model ----
(***************************************************************************)
(* A model of the storage backends of opendal.                             *)
(*                                                                         *)
(* The memory backend (src/src/services/memory/backend.rs) is a mutex      *)
(* protected HashMap<String, Bytes>.  Every Accessor operation takes the   *)
(* lock at most once and runs to completion under it, so each operation is *)
(* one atomic action.  A path is a sequence of one-character strings, a    *)
(* byte string is a sequence of bytes, Option<T> is a sequence of length   *)
(* zero (None) or one (Some).                                              *)
(***************************************************************************)
EXTENDS Naturals, Sequences, FiniteSets, TLC

VARIABLES inner, writers, stream, last, builder, backend, mutex, tasks

vars == <<inner, writers, stream, last, builder, backend, mutex, tasks>>

----------------------------------------------------------------------------
(* Bounds and input sets *)

\* longest byte string a writer buffers, hence longest stored object
MaxLen == 2

Bytes == {0, 1}

ByteSeqs(n) == UNION {[1..k -> Bytes] : k \in 0..n}

None == <<>>

Some(x) == <<x>>

Options(S) == {None} \cup {Some(x) : x \in S}

\* paths created, stat'ed and deleted by the data operations
Paths == { <<"e">>, <<"a", "/">> }

\* paths written and read by the data operations
DataPaths == { <<"e">> }

\* keys created and deleted by the listing operations
ListKeys == { <<"e">>, <<"a", "/">>, <<"a", "/", "b">>,
              <<"a", "/", "c", "/">>, <<"a", "/", "c", "/", "d">> }

\* directories listed
ListArgs == { <<"/">>, <<"a", "/">>, <<"a">> }

Modes == {"FILE", "DIR"}

AllWriters == {"w1", "w2"}

Writers == {"w1"}

NoWriter == [state |-> "none"]

NoStream == [state |-> "none"]

NoBuilder == [state |-> "none"]

NoBackend == [state |-> "none"]

\* the tasks that call the memory backend at the same time: two that own a
\* writer each, and one that calls the Accessor operations
Tasks == {"t1", "t2", "t3"}

\* a task between two calls
IdleTask ==
  [pc |-> "idle", op |-> "none", path |-> <<>>, held |-> 0, reader |-> None]

NoTasks == [t \in Tasks |-> IdleTask]

\* the Mutex with no owner
NoLock == "free"

----------------------------------------------------------------------------
(* String helpers (std::str) *)

ends_with_slash(p) == Len(p) > 0 /\ p[Len(p)] = "/"

starts_with(k, p) == Len(p) <= Len(k) /\ SubSeq(k, 1, Len(p)) = p

\* str::find('/') on k[from..]: the 0-based index of the first '/', as an Option
find_slash(k, from) ==
  LET hits == {i \in (from + 1)..Len(k) : k[i] = "/"}
  IN  IF hits = {} THEN None
      ELSE Some((CHOOSE i \in hits : \A j \in hits : i <= j) - (from + 1))

\* a slice that keeps the length and forgets the start
slice_from_start(data, lo, hi) == SubSeq(data, 1, hi - lo)

\* Bytes::slice(lo..hi), 0-based half-open
slice(data, lo, hi) == SubSeq(data, lo + 1, hi)

----------------------------------------------------------------------------
(* Errors and results *)

ObjectError(kind, op, path) == [kind |-> kind, label |-> op, path |-> path]

other(op, path) == ObjectError("Other", op, path)

Ok == [kind |-> "Ok"]

\* HashMap::insert
map_insert(map, k, v) ==
  [x \in DOMAIN map \cup {k} |-> IF x = k THEN v ELSE map[x]]

\* HashMap::remove
map_remove(map, k) == [x \in DOMAIN map \ {k} |-> map[x]]

Record(op, path, args, res) ==
  [op |-> op, path |-> path, args |-> args, pre |-> inner, res |-> res]

----------------------------------------------------------------------------
(* Memory backend: Accessor operations *)

EmptyMap == [x \in {} |-> <<>>]

Init ==
  /\ inner = EmptyMap
  /\ writers = [w \in AllWriters |-> NoWriter]
  /\ stream = NoStream
  /\ builder = NoBuilder
  /\ backend = NoBackend
  /\ mutex = NoLock
  /\ tasks = NoTasks
  /\ last = [op |-> "init", path |-> <<>>, args |-> <<>>, pre |-> EmptyMap, res |-> Ok]

create_map(map, path, mode) == map_insert(map, path, <<>>)

create(path, mode) ==
  /\ inner' = create_map(inner, path, mode)
  /\ last' = Record("create", path, [mode |-> mode], Ok)
  /\ UNCHANGED <<writers, stream>>
  /\ UNCHANGED <<builder, backend, mutex, tasks>>

\* a read whose offset check is off by one
read_result_gt(map, path, offset, size) ==
  IF path \notin DOMAIN map
  THEN ObjectError("NotFound", "read", path)
  ELSE LET data == map[path]
       IN  IF offset # None /\ offset[1] > Len(data)
           THEN other("read", path)
           ELSE LET data1 == IF offset # None
                             THEN slice(data, offset[1], Len(data))
                             ELSE data
                IN  IF size # None /\ size[1] > Len(data1)
                    THEN other("read", path)
                    ELSE [kind |-> "Ok",
                          data |-> IF size # None
                                   THEN slice(data1, 0, size[1])
                                   ELSE data1]

\* Backend::read: the reader's bytes, or the error
read_result(map, path, offset, size) ==
  IF path \notin DOMAIN map
  THEN ObjectError("NotFound", "read", path)
  ELSE LET data == map[path]
       IN  IF offset # None /\ offset[1] >= Len(data)
           THEN other("read", path)
           ELSE LET data1 == IF offset # None
                             THEN slice(data, offset[1], Len(data))
                             ELSE data
                IN  IF size # None /\ size[1] > Len(data1)
                    THEN other("read", path)
                    ELSE [kind |-> "Ok",
                          data |-> IF size # None
                                   THEN slice(data1, 0, size[1])
                                   ELSE data1]

read(path, offset, size) ==
  /\ last' = Record("read", path, [offset |-> offset, size |-> size],
                    read_result(inner, path, offset, size))
  /\ UNCHANGED <<inner, writers, stream>>
  /\ UNCHANGED <<builder, backend, mutex, tasks>>

\* Backend::write: a MapWriter with an empty buffer; the map is not touched
MapWriter(path, size) ==
  [state |-> "open", path |-> path, size |-> size, buf |-> <<>>, fed |-> <<>>]

write(w, path, size) ==
  /\ writers[w].state = "none"
  /\ writers' = [writers EXCEPT ![w] = MapWriter(path, size)]
  /\ last' = Record("write", path, [w |-> w, size |-> size], Ok)
  /\ UNCHANGED <<inner, stream>>
  /\ UNCHANGED <<builder, backend, mutex, tasks>>

\* a put_slice that puts the chunk in front
put_slice_front(buf, chunk) == chunk \o buf

\* BytesMut::put_slice
put_slice(buf, chunk) == buf \o chunk

\* a poll_write that stores what it has buffered so far
poll_write_through(map, wr, chunk) ==
  map_insert(map, wr.path, wr.buf \o chunk)

\* the map after MapWriter::poll_write
poll_write_map(map, wr, chunk) == map

poll_write(w, chunk) ==
  /\ writers[w].state = "open"
  /\ Len(writers[w].buf) + Len(chunk) <= MaxLen
  /\ writers' = [writers EXCEPT ![w].buf = put_slice(@, chunk),
                                ![w].fed = @ \o chunk]
  /\ inner' = poll_write_map(inner, writers[w], chunk)
  /\ last' = Record("poll_write", writers[w].path, [w |-> w, chunk |-> chunk],
                    [kind |-> "Ok", n |-> Len(chunk)])
  /\ UNCHANGED stream
  /\ UNCHANGED <<builder, backend, mutex, tasks>>

poll_flush(w) ==
  /\ writers[w].state = "open"
  /\ last' = Record("poll_flush", writers[w].path, [w |-> w], Ok)
  /\ UNCHANGED <<inner, writers, stream>>
  /\ UNCHANGED <<builder, backend, mutex, tasks>>

\* a length check that accepts surplus bytes
close_ok_atleast(wr) == Len(wr.buf) >= wr.size

\* MapWriter::poll_close: the length check
close_ok(wr) == Len(wr.buf) = wr.size

\* a close that adds its buffer to the bytes already stored
poll_close_map_append(map, wr) ==
  IF close_ok(wr)
  THEN map_insert(map, wr.path,
                  (IF wr.path \in DOMAIN map THEN map[wr.path] ELSE <<>>)
                    \o wr.buf)
  ELSE map

\* the map after MapWriter::poll_close
poll_close_map(map, wr) ==
  IF close_ok(wr) THEN map_insert(map, wr.path, wr.buf) ELSE map

poll_close(w) ==
  /\ writers[w].state = "open"
  /\ inner' = poll_close_map(inner, writers[w])
  /\ writers' = IF close_ok(writers[w])
                THEN [writers EXCEPT ![w].buf = <<>>, ![w].state = "closed"]
                ELSE writers
  /\ last' = Record("poll_close", writers[w].path, [w |-> w],
                    IF close_ok(writers[w])
                    THEN Ok
                    ELSE other("write", writers[w].path))
  /\ UNCHANGED stream
  /\ UNCHANGED <<builder, backend, mutex, tasks>>

\* the writer goes out of scope, closed or not: MapWriter has no Drop code
drop_map(map, wr) == map

drop(w) ==
  /\ writers[w].state # "none"
  /\ writers' = [writers EXCEPT ![w] = NoWriter]
  /\ inner' = drop_map(inner, writers[w])
  /\ last' = Record("drop", writers[w].path,
                    [w |-> w, closed |-> writers[w].state = "closed",
                     buf |-> writers[w].buf], Ok)
  /\ UNCHANGED stream
  /\ UNCHANGED <<builder, backend, mutex, tasks>>

\* a stat that looks every path up in the map
stat_result_lookup(map, path) ==
  IF path \notin DOMAIN map
  THEN ObjectError("NotFound", "read", path)
  ELSE [kind |-> "Ok",
        mode |-> IF ends_with_slash(path) THEN "DIR" ELSE "FILE",
        content_length |-> Some(Len(map[path]))]

\* Backend::stat: the metadata, or the error
stat_result(map, path) ==
  IF ends_with_slash(path)
  THEN [kind |-> "Ok", mode |-> "DIR", content_length |-> None]
  ELSE IF path \notin DOMAIN map
       THEN ObjectError("NotFound", "read", path)
       ELSE [kind |-> "Ok", mode |-> "FILE",
             content_length |-> Some(Len(map[path]))]

stat(path) ==
  /\ last' = Record("stat", path, <<>>, stat_result(inner, path))
  /\ UNCHANGED <<inner, writers, stream>>
  /\ UNCHANGED <<builder, backend, mutex, tasks>>

\* a delete that removes nothing
delete_map_keep(map, path) == map

\* a delete that takes the keys under the path with it
delete_map_prefix(map, path) ==
  [x \in {k \in DOMAIN map : ~starts_with(k, path)} |-> map[x]]

delete_map(map, path) == map_remove(map, path)

\* a delete that reports an absent key
delete_result_strict(map, path) ==
  IF path \in DOMAIN map THEN Ok ELSE ObjectError("NotFound", "delete", path)

\* Backend::delete: Ok whether or not the key was there
delete_result(map, path) == Ok

delete(path) ==
  /\ inner' = delete_map(inner, path)
  /\ last' = Record("delete", path, <<>>, delete_result(inner, path))
  /\ UNCHANGED <<writers, stream>>
  /\ UNCHANGED <<builder, backend, mutex, tasks>>

----------------------------------------------------------------------------
(* Specification of the data operations *)

Next ==
  \/ \E p \in Paths, m \in Modes : create(p, m)
  \/ \E p \in DataPaths, o \in Options(0..MaxLen), s \in Options(0..MaxLen) :
       read(p, o, s)
  \/ \E w \in Writers, p \in DataPaths, n \in 0..MaxLen : write(w, p, n)
  \/ \E w \in Writers, c \in ByteSeqs(MaxLen) : poll_write(w, c)
  \/ \E w \in Writers : poll_flush(w)
  \/ \E w \in Writers : poll_close(w)
  \/ \E w \in Writers : drop(w)
  \/ \E p \in Paths : stat(p)
  \/ \E p \in Paths : delete(p)

Spec == Init /\ [][Next]_vars

----------------------------------------------------------------------------
(* Memory backend: listing *)

\* a list that looks for keys under "/" itself
list_prefix_asis(path) == path

\* Backend::list: "/" is the empty prefix
list_prefix(path) == IF path = <<"/">> THEN <<>> ELSE path

\* a level filter that lets every descendant through
same_level_any(k, prefix) == TRUE

\* Backend::list: the second filter, k is at the same level as the prefix
same_level(k, prefix) ==
  LET f == find_slash(k, Len(prefix))
  IN  IF f = None THEN TRUE ELSE f[1] + 1 + Len(prefix) = Len(k)

\* Backend::list: the keys collected under the lock
list_keys(map, path) ==
  LET prefix == list_prefix(path)
  IN  {k \in DOMAIN map :
         /\ starts_with(k, prefix) /\ k # prefix
         /\ same_level(k, prefix)}

\* the orders in which HashMap::iter may visit a set of keys
Orders(S) ==
  {f \in [1..Cardinality(S) -> S] : \A i, j \in DOMAIN f : f[i] = f[j] => i = j}

DirStream(path, paths) ==
  [state |-> "open", path |-> path, paths |-> paths, idx |-> 0]

list(path) ==
  /\ \E paths \in Orders(list_keys(inner, path)) :
       stream' = DirStream(list_prefix(path), paths)
  /\ last' = Record("list", path, <<>>, Ok)
  /\ UNCHANGED <<inner, writers>>
  /\ UNCHANGED <<builder, backend, mutex, tasks>>

\* DirStream::poll_next: the entry built for a collected key
DirEntry(path) ==
  [mode |-> IF ends_with_slash(path) THEN "DIR" ELSE "FILE", path |-> path]

\* a poll_next that does not move on
poll_next_result_first(ds) ==
  IF ds.idx >= Len(ds.paths) THEN None ELSE Some(DirEntry(ds.paths[1]))

\* DirStream::poll_next: Some(entry), or None at the end of the stream
poll_next_result(ds) ==
  IF ds.idx >= Len(ds.paths) THEN None ELSE Some(DirEntry(ds.paths[ds.idx + 1]))

poll_next ==
  /\ stream.state = "open"
  /\ stream' = IF stream.idx >= Len(stream.paths)
               THEN stream
               ELSE [stream EXCEPT !.idx = @ + 1]
  /\ last' = Record("poll_next", stream.path, <<>>,
                    [kind |-> "Ok", item |-> poll_next_result(stream)])
  /\ UNCHANGED <<inner, writers>>
  /\ UNCHANGED <<builder, backend, mutex, tasks>>

\* every entry a freshly returned stream is going to yield
entries(ds) == {DirEntry(ds.paths[i]) : i \in 1..Len(ds.paths)}

NextList ==
  \/ \E p \in ListKeys, m \in Modes : create(p, m)
  \/ \E p \in ListKeys : delete(p)
  \/ \E p \in ListArgs : list(p)
  \/ poll_next

SpecList == Init /\ [][NextList]_vars

----------------------------------------------------------------------------
(* Memory backend: tasks running at the same time *)

\* Each task makes one call at a time.  A call that reaches
\* self.inner.lock() waits for the Mutex, runs with the guard, and gives the
\* Mutex back when the guard goes out of scope at its return.  A call that
\* takes no lock is one step.

WriterTasks == {"t1", "t2"}

AccessorTasks == {"t3"}

\* the MapWriter each writer task owns
WriterOf == [t \in WriterTasks |-> IF t = "t1" THEN "w1" ELSE "w2"]

\* the bytes each writer task feeds, one chunk at a time
ChunkOf == [t \in WriterTasks |-> IF t = "t1" THEN <<0>> ELSE <<1>>]

\* the key the tasks work on
TaskPath == <<"e">>

StatPaths == {<<"e">>, <<"a", "/">>}

\* the task has reached self.inner.lock()
Waiting(op, path) ==
  [pc |-> "waiting", op |-> op, path |-> path, held |-> 0]

\* Backend::write: no lock
task_write(t) ==
  /\ tasks[t].pc = "idle"
  /\ writers[WriterOf[t]].state = "none"
  /\ writers' = [writers EXCEPT ![WriterOf[t]] = MapWriter(TaskPath, MaxLen)]
  /\ UNCHANGED <<inner, stream, last, builder, backend, mutex, tasks>>

\* MapWriter::poll_write: no lock
task_poll_write(t) ==
  /\ tasks[t].pc = "idle"
  /\ writers[WriterOf[t]].state = "open"
  /\ Len(writers[WriterOf[t]].buf) + Len(ChunkOf[t]) <= MaxLen
  /\ writers' = [writers EXCEPT
                   ![WriterOf[t]].buf = put_slice(@, ChunkOf[t]),
                   ![WriterOf[t]].fed = @ \o ChunkOf[t]]
  /\ inner' = poll_write_map(inner, writers[WriterOf[t]], ChunkOf[t])
  /\ UNCHANGED <<stream, last, builder, backend, mutex, tasks>>

\* MapWriter::poll_close, up to self.map.lock(); a wrong length returns the
\* error before the lock
task_poll_close(t) ==
  /\ tasks[t].pc = "idle"
  /\ writers[WriterOf[t]].state = "open"
  /\ tasks' = IF close_ok(writers[WriterOf[t]])
              THEN [tasks EXCEPT ![t] = Waiting("poll_close", TaskPath)
                                          @@ [reader |-> tasks[t].reader]]
              ELSE tasks
  /\ UNCHANGED <<inner, writers, stream, last, builder, backend, mutex>>

\* Backend::create, read, delete, list, up to self.inner.lock()
task_call(t, op, path) ==
  /\ tasks[t].pc = "idle"
  /\ tasks' = [tasks EXCEPT ![t] = Waiting(op, path)
                                     @@ [reader |-> tasks[t].reader]]
  /\ UNCHANGED <<inner, writers, stream, last, builder, backend, mutex>>

\* Backend::stat, up to self.inner.lock(); a path ending in '/' returns
\* before the lock
task_stat(t, path) ==
  /\ tasks[t].pc = "idle"
  /\ tasks' = IF ends_with_slash(path)
              THEN tasks
              ELSE [tasks EXCEPT ![t] = Waiting("stat", path)
                                          @@ [reader |-> tasks[t].reader]]
  /\ UNCHANGED <<inner, writers, stream, last, builder, backend, mutex>>

\* parking_lot::Mutex::lock
lock(t) ==
  /\ tasks[t].pc = "waiting"
  /\ mutex = NoLock
  /\ mutex' = t
  /\ tasks' = [tasks EXCEPT ![t].pc = "locked", ![t].held = @ + 1]
  /\ UNCHANGED <<inner, writers, stream, last, builder, backend>>

\* a guard that is given back on success only
release_on_ok(op, res) == res.kind = "Ok"

\* the MutexGuard is a local of the call: every return drops it
release_on(op, res) == TRUE

\* the map after the part of the call that runs with the guard
locked_map(map, tk, wr) ==
  IF tk.op = "create" THEN create_map(map, tk.path, "FILE")
  ELSE IF tk.op = "delete" THEN delete_map(map, tk.path)
  ELSE IF tk.op = "poll_close" THEN poll_close_map(map, wr)
  ELSE map

\* the result of the call
locked_result(map, tk) ==
  IF tk.op = "read" THEN read_result(map, tk.path, None, None)
  ELSE IF tk.op = "stat" THEN stat_result(map, tk.path)
  ELSE Ok

\* a reader that follows the map
reader_after_live(rd, map) ==
  IF rd # None /\ TaskPath \in DOMAIN map THEN Some(map[TaskPath]) ELSE rd

\* a reader is a Cursor over its own clone of the Bytes: a change of the
\* map does not reach it
reader_after(rd, map) == rd

\* the rest of a call that took the lock: the work on the map, the drop of
\* the guard, the return
task_return(t) ==
  /\ tasks[t].pc = "locked"
  /\ LET tk == tasks[t]
         wr == IF t \in WriterTasks THEN writers[WriterOf[t]] ELSE NoWriter
         res == locked_result(inner, tk)
         map1 == locked_map(inner, tk, wr)
     IN  /\ inner' = map1
         /\ writers' = IF tk.op = "poll_close"
                       THEN [writers EXCEPT ![WriterOf[t]].buf = <<>>,
                                            ![WriterOf[t]].state = "closed"]
                       ELSE writers
         /\ IF tk.op = "list"
            THEN \E paths \in Orders(list_keys(inner, tk.path)) :
                   stream' = DirStream(list_prefix(tk.path), paths)
            ELSE stream' = stream
         /\ mutex' = IF release_on(tk.op, res) THEN NoLock ELSE t
         /\ tasks' = [u \in Tasks |->
                        IF u = t
                        THEN [IdleTask EXCEPT !.reader =
                                IF tk.op = "read" /\ res.kind = "Ok"
                                THEN Some(res.data)
                                ELSE reader_after(tk.reader, map1)]
                        ELSE [tasks[u] EXCEPT !.reader = reader_after(@, map1)]]
  /\ UNCHANGED <<last, builder, backend>>

NextTasks ==
  \/ \E t \in WriterTasks : task_write(t)
  \/ \E t \in WriterTasks : task_poll_write(t)
  \/ \E t \in WriterTasks : task_poll_close(t)
  \/ \E t \in AccessorTasks, op \in {"create", "read", "delete"} :
       task_call(t, op, TaskPath)
  \/ \E t \in AccessorTasks : task_call(t, "list", <<"/">>)
  \/ \E t \in AccessorTasks, p \in StatPaths : task_stat(t, p)
  \/ \E t \in Tasks : lock(t)
  \/ \E t \in Tasks : task_return(t)

SpecTasks == Init /\ [][NextTasks]_vars

\* threads are scheduled, and parking_lot's Mutex is eventually fair
FairTasks ==
  \A t \in Tasks : SF_vars(lock(t)) /\ WF_vars(task_return(t))

SpecTasksFair == SpecTasks /\ FairTasks

----------------------------------------------------------------------------
(* Properties of the memory backend, tasks (SpecTasks, SpecTasksFair) *)

\* the writers that closed successfully
ClosedWriters == {w \in AllWriters : writers[w].state = "closed"}

\* the values a read may see: the complete buffer of a closed writer, or the
\* empty value that create stored before
Committed == {writers[w].fed : w \in ClosedWriters} \cup {<<>>}

NoMixture ==
  /\ TaskPath \in DOMAIN inner => inner[TaskPath] \in Committed
  /\ \A t \in Tasks :
       tasks[t].reader # None => tasks[t].reader[1] \in Committed
  /\ \A w \in ClosedWriters : Len(writers[w].fed) = writers[w].size

\* the step in which a writer closes stores that writer's whole buffer
CloseStores ==
  \A t \in WriterTasks :
    (writers[WriterOf[t]].state = "open"
       /\ writers'[WriterOf[t]].state = "closed")
    => /\ TaskPath \in DOMAIN inner'
       /\ inner'[TaskPath] = writers[WriterOf[t]].fed
       /\ Len(inner'[TaskPath]) = writers[WriterOf[t]].size

\* C26: under any interleaving of the chunk writes and closes of two
\* writers on one key with reads, every reader holds the complete buffer of
\* one closed writer or the value stored before, never a mixture; and each
\* close leaves the closing writer's complete buffer as the stored value,
\* so after both closed the last to close is stored.
WritersAtomic == []NoMixture /\ [][CloseStores]_vars

\* both writers closed: a reader holds the first buffer, the map the second
WritersAtomicWitness ==
  /\ ClosedWriters = AllWriters
  /\ tasks["t3"].reader = Some(writers["w1"].fed)
  /\ TaskPath \in DOMAIN inner
  /\ inner[TaskPath] = writers["w2"].fed
  /\ writers["w1"].fed # writers["w2"].fed

LockInv ==
  /\ mutex \in Tasks \cup {NoLock}
  /\ \A t \in Tasks :
       /\ (mutex = t) <=> (tasks[t].pc = "locked")
       /\ tasks[t].held <= 1
       /\ tasks[t].pc = "locked" => tasks[t].held = 1
       /\ tasks[t].pc = "idle" => tasks[t].held = 0

\* the next step of the task that holds the Mutex is its return, and the
\* Mutex is free after it
LockReleased ==
  \A t \in Tasks :
    (tasks[t].pc = "locked" /\ tasks'[t].pc # "locked")
    => mutex' = NoLock /\ tasks'[t].pc = "idle"

AllComplete ==
  \A t \in Tasks : (tasks[t].pc # "idle") ~> (tasks[t].pc = "idle")

\* C27: a call takes the Mutex at most once, a task that is not inside the
\* locked part of a call never holds it, every return (success or error)
\* leaves it free, and every call that was started completes.
LockDiscipline == []LockInv /\ [][LockReleased]_vars /\ AllComplete

\* a read that will fail with NotFound holds the Mutex, both writers wait
LockDisciplineWitness ==
  /\ mutex = "t3"
  /\ tasks["t3"].op = "read"
  /\ TaskPath \notin DOMAIN inner
  /\ tasks["t1"].pc = "waiting"
  /\ tasks["t2"].pc = "waiting"

ReaderStep ==
  \A t \in Tasks :
    tasks'[t].reader # tasks[t].reader
    => /\ tasks[t].pc = "locked"
       /\ tasks[t].op = "read"
       /\ TaskPath \in DOMAIN inner
       /\ tasks'[t].reader = Some(inner[TaskPath])

\* C28: a reader holds the bytes stored under the key when its read
\* returned, and no later write, create or delete of the key changes them.
ReaderSnapshot == [][ReaderStep]_vars

\* a reader of the created empty value, and a later close stored new bytes
ReaderSnapshotWitness ==
  /\ tasks["t3"].reader = Some(<<>>)
  /\ TaskPath \in DOMAIN inner
  /\ inner[TaskPath] # <<>>

----------------------------------------------------------------------------
(* Properties of the memory backend, data operations (Spec) *)

\* the writer the last writer operation acted on
LastWriter == writers[last.args.w]

\* C1: round trip.  After write(p, n), feeding exactly the bytes B in any
\* chunking and a successful close, the map holds B under p and a read(p)
\* with no offset and no size yields exactly B.
RoundTrip ==
  /\ (last.op = "poll_close" /\ last.res.kind = "Ok") =>
       /\ Len(LastWriter.fed) = LastWriter.size
       /\ last.path \in DOMAIN inner
       /\ inner[last.path] = LastWriter.fed
       /\ read_result(inner, last.path, None, None)
            = [kind |-> "Ok", data |-> LastWriter.fed]
  /\ (last.op = "read" /\ last.args.offset = None /\ last.args.size = None
        /\ last.path \in DOMAIN inner) =>
       last.res = [kind |-> "Ok", data |-> inner[last.path]]

RoundTripWitness ==
  /\ last.op = "read" /\ last.args.offset = None /\ last.args.size = None
  /\ writers["w1"].state = "closed"
  /\ writers["w1"].path = last.path
  /\ writers["w1"].fed = <<0, 1>>
  /\ last.res = [kind |-> "Ok", data |-> <<0, 1>>]

\* C2: short write.  Closing a writer that was fed fewer or more bytes than
\* the declared size returns an error of kind Other and leaves the map as
\* it was: the previous value is kept, an absent key stays absent.
ShortWrite ==
  (last.op = "poll_close" /\ Len(LastWriter.fed) # LastWriter.size) =>
    /\ last.res.kind = "Other"
    /\ inner = last.pre

ShortWriteWitness ==
  /\ last.op = "poll_close"
  /\ Len(LastWriter.fed) > LastWriter.size
  /\ last.path \in DOMAIN inner
  /\ inner[last.path] = <<1, 0>>
  /\ LastWriter.fed = <<0>>

\* C3: range read.  For a stored object B of length n, 0 <= o < n and
\* 0 < s <= n - o, read(p, offset = o, size = s) succeeds with B[o..o+s].
RangeRead ==
  (/\ last.op = "read"
   /\ last.path \in DOMAIN inner
   /\ last.args.offset # None
   /\ last.args.size # None) =>
    LET B == inner[last.path]
        o == last.args.offset[1]
        s == last.args.size[1]
    IN  (o < Len(B) /\ 0 < s /\ o + s <= Len(B)) =>
          last.res = [kind |-> "Ok", data |-> [i \in 1..s |-> B[o + i]]]

RangeReadWitness ==
  /\ last.op = "read"
  /\ last.path \in DOMAIN inner
  /\ inner[last.path] = <<0, 1>>
  /\ last.args = [offset |-> Some(1), size |-> Some(1)]
  /\ last.res = [kind |-> "Ok", data |-> <<1>>]

\* C4: range out of bounds.  For a stored object of length n, a read with
\* offset o >= n, or with size s > n - o, fails with kind Other; a reader is
\* never returned with fewer bytes than the size asked for.
RangeOutOfBounds ==
  (last.op = "read" /\ last.path \in DOMAIN inner) =>
    LET n == Len(inner[last.path])
        o == IF last.args.offset = None THEN 0 ELSE last.args.offset[1]
    IN  /\ (last.args.offset # None /\ o >= n) => last.res.kind = "Other"
        /\ (last.args.size # None /\ o + last.args.size[1] > n) =>
             last.res.kind = "Other"
        /\ (last.res.kind = "Ok" /\ last.args.size # None) =>
             Len(last.res.data) = last.args.size[1]

RangeOutOfBoundsWitness ==
  /\ last.op = "read"
  /\ last.path \in DOMAIN inner
  /\ Len(inner[last.path]) = 2
  /\ last.args = [offset |-> Some(1), size |-> Some(2)]
  /\ last.res.kind = "Other"

FileMeta(n) == [kind |-> "Ok", mode |-> "FILE", content_length |-> Some(n)]

\* C5, as claimed: for any path p, after create(p, FILE) a stat(p) reports
\* mode FILE and content length 0, and after a following delete(p) a stat(p)
\* fails with NotFound.
Lifecycle ==
  /\ (last.op = "create" /\ last.args.mode = "FILE") =>
       stat_result(inner, last.path) = FileMeta(0)
  /\ (last.op = "delete" /\ last.path \in DOMAIN last.pre
        /\ last.pre[last.path] = <<>>) =>
       stat_result(inner, last.path).kind = "NotFound"

\* C5, amended: the same for any path p that does not end in '/'.
LifecycleOfFile ==
  /\ (last.op = "create" /\ last.args.mode = "FILE"
        /\ ~ends_with_slash(last.path)) =>
       stat_result(inner, last.path) = FileMeta(0)
  /\ (last.op = "delete" /\ last.path \in DOMAIN last.pre
        /\ last.pre[last.path] = <<>> /\ ~ends_with_slash(last.path)) =>
       stat_result(inner, last.path).kind = "NotFound"
  /\ (last.op = "stat" /\ ~ends_with_slash(last.path)) =>
       last.res = IF last.path \in DOMAIN inner
                  THEN FileMeta(Len(inner[last.path]))
                  ELSE ObjectError("NotFound", last.res.label, last.path)

LifecycleOfFileWitness ==
  /\ last.op = "delete"
  /\ ~ends_with_slash(last.path)
  /\ last.path \in DOMAIN last.pre
  /\ last.pre[last.path] = <<>>
  /\ last.path \notin DOMAIN inner

\* C8: delete of an absent key returns success and leaves the map as it
\* was; a second delete(p) gives the same map and the same result as the
\* first.
DeleteAbsent ==
  /\ (last.op = "delete" /\ last.path \notin DOMAIN last.pre) =>
       /\ last.res.kind = "Ok"
       /\ inner = last.pre
  /\ last.op = "delete" =>
       /\ delete_map(inner, last.path) = inner
       /\ delete_result(inner, last.path) = last.res

DeleteAbsentWitness ==
  /\ last.op = "delete"
  /\ last.path \notin DOMAIN last.pre
  /\ DOMAIN inner # {}

\* C9: uncommitted writers.  Creating a writer, feeding it bytes, flushing
\* it and dropping it without a close leave the map as it was.
UncommittedWriter ==
  /\ last.op \in {"write", "poll_write", "poll_flush"} => inner = last.pre
  /\ (last.op = "drop" /\ ~last.args.closed) => inner = last.pre

UncommittedWriterWitness ==
  /\ last.op = "drop"
  /\ ~last.args.closed
  /\ last.args.buf = <<1, 0>>
  /\ last.path \in DOMAIN inner
  /\ inner[last.path] = <<0>>

\* the operation of the Accessor that a step belongs to
AccessorOp(op) ==
  IF op \in {"poll_write", "poll_flush", "poll_close", "drop"} THEN "write"
  ELSE IF op = "poll_next" THEN "list" ELSE op

\* C10: every error carries the name of the operation that was invoked.
ErrorCarriesOp ==
  last.res.kind # "Ok" => last.res.label = AccessorOp(last.op)

\* the last call was a read of a stored object, with the offset left out
\* or given as 0
ReadFromStart ==
  /\ last.op = "read"
  /\ last.path \in DOMAIN last.pre
  /\ last.args.offset \in {None, Some(0)}

\* the same read with the offset given the other way
Twin ==
  read_result(last.pre, last.path,
              IF last.args.offset = None THEN Some(0) ELSE None,
              last.args.size)

\* both fail, or both succeed with the same bytes
SameOutcome(r1, r2) ==
  /\ r1.kind = "Ok" <=> r2.kind = "Ok"
  /\ r1.kind = "Ok" => r1.data = r2.data

\* C29: for every stored object, the empty one included, and every size,
\* read(p, offset unspecified, size) and read(p, offset = 0, size) both
\* fail or both succeed with the same bytes.
OffsetDefault == ReadFromStart => SameOutcome(last.res, Twin)

\* C31: stat of a path ending in '/' returns a DIR metadata whatever the
\* map holds; stat of any other path fails with NotFound when the key is
\* absent and returns a FILE metadata with the stored byte count when it is
\* present.
StatOutcome ==
  last.op = "stat" =>
    IF ends_with_slash(last.path)
    THEN last.res.kind = "Ok" /\ last.res.mode = "DIR"
    ELSE IF last.path \notin DOMAIN last.pre
         THEN last.res.kind = "NotFound"
         ELSE last.res = FileMeta(Len(last.pre[last.path]))

\* a stat of "a/" with no such key and no key under it
StatOutcomeWitness ==
  /\ last.op = "stat"
  /\ ends_with_slash(last.path)
  /\ \A k \in DOMAIN inner : ~starts_with(k, last.path)
  /\ last.res.mode = "DIR"

----------------------------------------------------------------------------
(* Properties of the memory backend, listing (SpecList) *)

\* C6: list(d), with "/" taken as the empty prefix, returns exactly the keys
\* k of the map that start with d, differ from d, and have no '/' after d
\* except as the last character of k; an entry is DIR if its key ends in
\* '/' and FILE otherwise.
ListNonRecursive ==
  /\ last.op = "list" =>
       LET d == IF last.path = <<"/">> THEN <<>> ELSE last.path
           want == {k \in DOMAIN inner :
                      /\ Len(d) <= Len(k)
                      /\ \A i \in 1..Len(d) : k[i] = d[i]
                      /\ k # d
                      /\ \A i \in (Len(d) + 1)..Len(k) :
                           k[i] = "/" => i = Len(k)}
       IN  /\ {stream.paths[i] : i \in 1..Len(stream.paths)} = want
           /\ Len(stream.paths) = Cardinality(want)
           /\ stream.idx = 0
           /\ \A e \in entries(stream) :
                e.mode = IF e.path[Len(e.path)] = "/" THEN "DIR" ELSE "FILE"
  /\ (last.op = "poll_next" /\ last.res.item # None) =>
       LET e == last.res.item[1]
       IN  /\ e.path = stream.paths[stream.idx]
           /\ e.mode = IF e.path[Len(e.path)] = "/" THEN "DIR" ELSE "FILE"

ListNonRecursiveWitness ==
  /\ last.op = "list"
  /\ last.path = <<"a", "/">>
  /\ DOMAIN inner = ListKeys
  /\ Len(stream.paths) = 2

ScenarioKeys ==
  { <<"a", "/", "b">>, <<"a", "/", "c", "/">>, <<"a", "/", "c", "/", "d">>,
    <<"e">> }

\* C7, as claimed: with exactly the keys a/b, a/c/, a/c/d and e stored,
\* list("a/") returns a/b (FILE) and a/c/ (DIR), and list("/") returns the
\* directory a/ together with e (FILE).
ListScenario ==
  (last.op = "list" /\ DOMAIN inner = ScenarioKeys) =>
    /\ last.path = <<"a", "/">> =>
         entries(stream) = { [mode |-> "FILE", path |-> <<"a", "/", "b">>],
                             [mode |-> "DIR", path |-> <<"a", "/", "c", "/">>] }
    /\ last.path = <<"/">> =>
         entries(stream) = { [mode |-> "DIR", path |-> <<"a", "/">>],
                             [mode |-> "FILE", path |-> <<"e">>] }

\* C7, amended: list("a/") as claimed, and list("/") returns e (FILE)
\* alone: no entry is derived for the directory a/, whose key is not stored.
ListScenarioStored ==
  (last.op = "list" /\ DOMAIN inner = ScenarioKeys) =>
    /\ last.path = <<"a", "/">> =>
         entries(stream) = { [mode |-> "FILE", path |-> <<"a", "/", "b">>],
                             [mode |-> "DIR", path |-> <<"a", "/", "c", "/">>] }
    /\ last.path = <<"/">> =>
         entries(stream) = { [mode |-> "FILE", path |-> <<"e">>] }

ListScenarioStoredWitness ==
  /\ last.op = "list"
  /\ DOMAIN inner = ScenarioKeys
  /\ last.path = <<"/">>
  /\ Len(stream.paths) = 1

\* a stream holds no key twice, and what list collected is as C30 says
StreamKeys ==
  /\ stream.state = "open" =>
       /\ \A i, j \in 1..Len(stream.paths) :
            stream.paths[i] = stream.paths[j] => i = j
       /\ stream.idx <= Len(stream.paths)
  /\ (last.op = "list"
        /\ {<<"a", "/">>, <<"a", "/", "b">>} \subseteq DOMAIN inner) =>
       LET got == {stream.paths[i] : i \in 1..Len(stream.paths)}
       IN  /\ last.path = <<"/">> =>
                <<"a", "/">> \in got /\ <<"a", "/", "b">> \notin got
           /\ last.path = <<"a", "/">> =>
                <<"a", "/", "b">> \in got /\ <<"a", "/">> \notin got

\* a poll yields the next collected key and moves on by one, or reports the
\* end and leaves the stream as it is
StreamStep ==
  last'.op = "poll_next" =>
    IF stream.idx < Len(stream.paths)
    THEN /\ last'.res.item # None
         /\ last'.res.item[1].path = stream.paths[stream.idx + 1]
         /\ stream' = [stream EXCEPT !.idx = stream.idx + 1]
    ELSE /\ last'.res.item = None
         /\ stream' = stream

\* C30: the stream that list returns yields every collected key exactly
\* once, in the order collected, and then reports the end on every later
\* poll; with "a/" and "a/b" stored, each is in the list of its parent
\* directory and of no other, and no stream holds a key twice.
DirStreamOnce == []StreamKeys /\ [][StreamStep]_vars

DirStreamOnceWitness ==
  /\ last.op = "poll_next"
  /\ last.res.item = None
  /\ stream.path = <<>>
  /\ stream.idx = 2
  /\ \E i \in 1..2 : stream.paths[i] = <<"a", "/">>
  /\ <<"a", "/", "b">> \in DOMAIN inner

\* C32: delete(p) removes at most the key p; every other key stays stored
\* with its bytes and can be read, the keys under a deleted directory key
\* included.
DeleteFrame ==
  last.op = "delete" =>
    /\ DOMAIN inner = DOMAIN last.pre \ {last.path}
    /\ \A k \in DOMAIN last.pre \ {last.path} :
         /\ k \in DOMAIN inner
         /\ inner[k] = last.pre[k]
         /\ read_result(inner, k, None, None).kind = "Ok"
         /\ read_result(inner, k, None, None).data = last.pre[k]

\* "a/" was stored and is deleted, "a/b" is still there
DeleteFrameWitness ==
  /\ last.op = "delete"
  /\ last.path = <<"a", "/">>
  /\ last.path \in DOMAIN last.pre
  /\ <<"a", "/", "b">> \in DOMAIN inner

----------------------------------------------------------------------------
(* S3 backend: strings *)

\* longest root handed to Builder::root
MaxRootLen == 4

RootChars == {"a", "/"}

RootInputs == UNION {[1..k -> RootChars] : k \in 0..MaxRootLen}

\* "https://"
Https == <<"h", "t", "t", "p", "s", ":", "/", "/">>

\* "http"
Http == <<"h", "t", "t", "p">>

\* "://"
SchemeMark == <<":", "/", "/">>

\* "https://s3.amazonaws.com"
S3Global == <<"h", "t", "t", "p", "s", ":", "/", "/", "s", "3", ".", "a", "m", "a", "z", "o", "n", "a", "w", "s", ".", "c", "o", "m">>

\* "https://s3."
TemplateHead == <<"h", "t", "t", "p", "s", ":", "/", "/", "s", "3", ".">>

\* ".amazonaws.com"
TemplateTail == <<".", "a", "m", "a", "z", "o", "n", "a", "w", "s", ".", "c", "o", "m">>

\* "{region}"
RegionSlot == <<"{", "r", "e", "g", "i", "o", "n", "}">>

\* "us-east-1"
UsEast1 == <<"u", "s", "-", "e", "a", "s", "t", "-", "1">>

\* "us-east-2"
UsEast2 == <<"u", "s", "-", "e", "a", "s", "t", "-", "2">>

\* "test"
BucketTest == <<"t", "e", "s", "t">>

\* a byte of a header value that is no visible ASCII character
Byte80 == "0x80"

\* the endpoints handed to Builder::endpoint
EndpointInputs ==
  { <<>>,
    <<"s", "3", ".", "a", "m", "a", "z", "o", "n", "a", "w", "s", ".", "c", "o", "m">>,
    S3Global,
    TemplateHead \o UsEast2 \o TemplateTail,
    Https \o BucketTest \o <<".", "s", "3", ".", "a", "m", "a", "z", "o", "n", "a", "w", "s", ".", "c", "o", "m", "/">>,
    <<"h", "t", "t", "p", "d", ".", "l", "o", "c", "a", "l">>,
    <<"h", "t", "t", "p", ":", "/", "/", "1", "2", "7", ".", "0", ".", "0", ".", "1", ":", "9", "0", "0", "0", "/">> }

BucketInputs == { <<>>, BucketTest }

RegionInputs == { <<>>, UsEast2 }

\* str::trim_end_matches(c)
RECURSIVE trim_end_matches(_, _)
trim_end_matches(s, c) ==
  IF Len(s) > 0 /\ s[Len(s)] = c
  THEN trim_end_matches(SubSeq(s, 1, Len(s) - 1), c)
  ELSE s

\* str::trim_start_matches(c)
RECURSIVE trim_start_matches(_, _)
trim_start_matches(s, c) ==
  IF Len(s) > 0 /\ s[1] = c THEN trim_start_matches(Tail(s), c) ELSE s

\* str::replace(from, to): every match, left to right, without overlap
RECURSIVE replace(_, _, _)
replace(s, from, to) ==
  IF Len(s) < Len(from) \/ Len(from) = 0 THEN s
  ELSE IF starts_with(s, from)
       THEN to \o replace(SubSeq(s, Len(from) + 1, Len(s)), from, to)
       ELSE <<s[1]>> \o replace(Tail(s), from, to)

\* str::split(c): the pieces between the separators, empty pieces included
RECURSIVE split(_, _)
split(s, c) ==
  LET hits == {i \in 1..Len(s) : s[i] = c}
  IN  IF hits = {} THEN <<s>>
      ELSE LET i == CHOOSE h \in hits : \A j \in hits : h <= j
           IN  <<SubSeq(s, 1, i - 1)>> \o split(SubSeq(s, i + 1, Len(s)), c)

\* Iterator::filter(|v| !v.is_empty())
RECURSIVE filter_nonempty(_)
filter_nonempty(segs) ==
  IF segs = <<>> THEN <<>>
  ELSE IF Head(segs) = <<>> THEN filter_nonempty(Tail(segs))
       ELSE <<Head(segs)>> \o filter_nonempty(Tail(segs))

\* [&str]::join(sep)
RECURSIVE join(_, _)
join(segs, sep) ==
  IF segs = <<>> THEN <<>>
  ELSE IF Len(segs) = 1 THEN Head(segs)
       ELSE Head(segs) \o sep \o join(Tail(segs), sep)

----------------------------------------------------------------------------
(* S3 backend: Builder *)

SseNames ==
  { "server_side_encryption",
    "server_side_encryption_aws_kms_key_id",
    "server_side_encryption_customer_algorithm",
    "server_side_encryption_customer_key",
    "server_side_encryption_customer_key_md5" }

\* "AES256"
Aes256 == <<"A", "E", "S", "2", "5", "6">>

\* a value with a line break in it, which is no header value
BrokenValue == <<"A", "\n">>

SseInputs == { <<>>, Aes256, BrokenValue }

\* Builder::default
DefaultBuilder ==
  [state |-> "new", root |-> None, bucket |-> <<>>, endpoint |-> None,
   region |-> None, access_key_id |-> None, secret_access_key |-> None,
   sse |-> [n \in SseNames |-> None],
   disable_credential_loader |-> FALSE, enable_virtual_host_style |-> FALSE]

\* the call made last on the Builder
Call(op, args) == [op |-> op, args |-> args]

\* Builder::root
root(v) ==
  /\ builder.state = "new"
  /\ builder' = [builder EXCEPT !.root = IF v = <<>> THEN None ELSE Some(v)]
  /\ last' = Call("root", v)
  /\ UNCHANGED <<inner, writers, stream, backend, mutex, tasks>>

\* Builder::bucket
bucket(v) ==
  /\ builder.state = "new"
  /\ builder' = [builder EXCEPT !.bucket = v]
  /\ last' = Call("bucket", v)
  /\ UNCHANGED <<inner, writers, stream, backend, mutex, tasks>>

\* Builder::endpoint
endpoint(v) ==
  /\ builder.state = "new"
  /\ builder' = IF v # <<>>
                THEN [builder EXCEPT !.endpoint = Some(trim_end_matches(v, "/"))]
                ELSE builder
  /\ last' = Call("endpoint", v)
  /\ UNCHANGED <<inner, writers, stream, backend, mutex, tasks>>

\* Builder::region
region(v) ==
  /\ builder.state = "new"
  /\ builder' = IF v # <<>> THEN [builder EXCEPT !.region = Some(v)] ELSE builder
  /\ last' = Call("region", v)
  /\ UNCHANGED <<inner, writers, stream, backend, mutex, tasks>>

\* Builder::server_side_encryption
server_side_encryption(v) ==
  /\ builder.state = "new"
  /\ builder' = IF v # <<>>
                THEN [builder EXCEPT !.sse["server_side_encryption"] = Some(v)]
                ELSE builder
  /\ last' = Call("server_side_encryption", v)
  /\ UNCHANGED <<inner, writers, stream, backend, mutex, tasks>>

\* Builder::access_key_id
access_key_id(v) ==
  /\ builder.state = "new"
  /\ builder' = IF v # <<>>
                THEN [builder EXCEPT !.access_key_id = Some(v)]
                ELSE builder
  /\ last' = Call("access_key_id", v)
  /\ UNCHANGED <<inner, writers, stream, backend, mutex, tasks>>

\* Builder::secret_access_key
secret_access_key(v) ==
  /\ builder.state = "new"
  /\ builder' = IF v # <<>>
                THEN [builder EXCEPT !.secret_access_key = Some(v)]
                ELSE builder
  /\ last' = Call("secret_access_key", v)
  /\ UNCHANGED <<inner, writers, stream, backend, mutex, tasks>>

\* Builder::server_side_encryption_aws_kms_key_id
server_side_encryption_aws_kms_key_id(v) ==
  /\ builder.state = "new"
  /\ builder' = IF v # <<>>
                THEN [builder EXCEPT
                        !.sse["server_side_encryption_aws_kms_key_id"] = Some(v)]
                ELSE builder
  /\ last' = Call("server_side_encryption_aws_kms_key_id", v)
  /\ UNCHANGED <<inner, writers, stream, backend, mutex, tasks>>

\* Builder::server_side_encryption_customer_algorithm
server_side_encryption_customer_algorithm(v) ==
  /\ builder.state = "new"
  /\ builder' = IF v # <<>>
                THEN [builder EXCEPT
                        !.sse["server_side_encryption_customer_algorithm"] = Some(v)]
                ELSE builder
  /\ last' = Call("server_side_encryption_customer_algorithm", v)
  /\ UNCHANGED <<inner, writers, stream, backend, mutex, tasks>>

\* Builder::server_side_encryption_customer_key
server_side_encryption_customer_key(v) ==
  /\ builder.state = "new"
  /\ builder' = IF v # <<>>
                THEN [builder EXCEPT
                        !.sse["server_side_encryption_customer_key"] = Some(v)]
                ELSE builder
  /\ last' = Call("server_side_encryption_customer_key", v)
  /\ UNCHANGED <<inner, writers, stream, backend, mutex, tasks>>

\* Builder::server_side_encryption_customer_key_md5
server_side_encryption_customer_key_md5(v) ==
  /\ builder.state = "new"
  /\ builder' = IF v # <<>>
                THEN [builder EXCEPT
                        !.sse["server_side_encryption_customer_key_md5"] = Some(v)]
                ELSE builder
  /\ last' = Call("server_side_encryption_customer_key_md5", v)
  /\ UNCHANGED <<inner, writers, stream, backend, mutex, tasks>>

\* Builder::disable_credential_loader
disable_credential_loader ==
  /\ builder.state = "new"
  /\ builder' = [builder EXCEPT !.disable_credential_loader = TRUE]
  /\ last' = Call("disable_credential_loader", <<>>)
  /\ UNCHANGED <<inner, writers, stream, backend, mutex, tasks>>

\* the order in which Debug writes the options it redacts
RedactedFields ==
  << "server_side_encryption",
     "server_side_encryption_aws_kms_key_id",
     "server_side_encryption_customer_algorithm",
     "server_side_encryption_customer_key",
     "server_side_encryption_customer_key_md5" >>

\* "<redacted>"
Redacted == "<redacted>"

\* DebugStruct::field
field(name, value) == <<[name |-> name, value |-> value]>>

\* the field of an Option that Debug writes only when it is Some
field_if_some(name, opt, value) ==
  IF opt # None THEN field(name, value) ELSE <<>>

RECURSIVE fields_of_sse(_, _)
\* impl Debug for Builder: the five server_side_encryption options
fields_of_sse(sse, names) ==
  IF names = <<>> THEN <<>>
  ELSE field_if_some(Head(names), sse[Head(names)], Redacted)
         \o fields_of_sse(sse, Tail(names))

\* a Debug that writes the credentials as they are
fmt_plain(b) ==
  field("root", b.root)
    \o field("bucket", b.bucket)
    \o field("endpoint", b.endpoint)
    \o field("region", b.region)
    \o field("disable_credential_loader", b.disable_credential_loader)
    \o field("enable_virtual_host_style", b.disable_credential_loader)
    \o field_if_some("access_key_id", b.access_key_id, b.access_key_id)
    \o field_if_some("secret_access_key", b.secret_access_key,
                     b.secret_access_key)
    \o fields_of_sse(b.sse, RedactedFields)

\* impl Debug for Builder: the fields of the debug_struct, in order; the
\* field named enable_virtual_host_style holds disable_credential_loader
fmt(b) ==
  field("root", b.root)
    \o field("bucket", b.bucket)
    \o field("endpoint", b.endpoint)
    \o field("region", b.region)
    \o field("disable_credential_loader", b.disable_credential_loader)
    \o field("enable_virtual_host_style", b.disable_credential_loader)
    \o field_if_some("access_key_id", b.access_key_id, Redacted)
    \o field_if_some("secret_access_key", b.secret_access_key, Redacted)
    \o fields_of_sse(b.sse, RedactedFields)

\* Builder::enable_virtual_host_style
enable_virtual_host_style ==
  /\ builder.state = "new"
  /\ builder' = [builder EXCEPT !.enable_virtual_host_style = TRUE]
  /\ last' = Call("enable_virtual_host_style", <<>>)
  /\ UNCHANGED <<inner, writers, stream, backend, mutex, tasks>>

----------------------------------------------------------------------------
(* S3 backend: region detection *)

\* ENDPOINT_TEMPLATES
ENDPOINT_TEMPLATES ==
  [k \in {S3Global} |-> TemplateHead \o RegionSlot \o TemplateTail]

\* other(BackendError::new(context, ..))
BackendError(context) == [kind |-> "Other", context |-> context]

\* what the server, or the way to it, does with the probe
ProbeStatuses == {200, 403, 301, 404}

ProbeHeaders == {None, Some(UsEast2), Some(<<Byte80>>)}

Probes ==
  {[fail |-> f, status |-> 0, header |-> None] : f \in {"build", "send"}}
    \cup {[fail |-> "none", status |-> c, header |-> h] :
            c \in ProbeStatuses, h \in ProbeHeaders}

\* HeaderValue::to_str: only visible ASCII is a string
to_str_ok(v) == \A i \in 1..Len(v) : v[i] # Byte80

with_scheme_bare(e) == IF e # None THEN e[1] ELSE S3Global

\* detect_region: the endpoint with its scheme
with_scheme(e) ==
  IF e # None
  THEN IF starts_with(e[1], Http) THEN e[1] ELSE Https \o e[1]
  ELSE S3Global

\* detect_region: the endpoint without the bucket in front of the host
trim_bucket(e, bkt) == replace(e, <<"/", "/">> \o bkt \o <<".">>, <<"/", "/">>)

from_template_blank(e, rgn) ==
  IF e \in DOMAIN ENDPOINT_TEMPLATES THEN Some(ENDPOINT_TEMPLATES[e]) ELSE None

\* detect_region: the template of the endpoint, filled in, as an Option
from_template(e, rgn) ==
  IF e \in DOMAIN ENDPOINT_TEMPLATES
  THEN Some(replace(ENDPOINT_TEMPLATES[e], RegionSlot, rgn))
  ELSE None

region_or_default_east2(header) == IF header = None THEN UsEast2 ELSE header[1]

\* detect_region: the region a 200 or 403 answer names
region_or_default(header) == IF header = None THEN UsEast1 ELSE header[1]

Head_request(url) == [method |-> "HEAD", url |-> url, signed |-> FALSE]

Detected(base, e, rgn, reqs) ==
  [ok |-> TRUE, base |-> base, endpoint |-> e, region |-> rgn, reqs |-> reqs,
   err |-> <<>>]

NotDetected(base, context, reqs) ==
  [ok |-> FALSE, base |-> base, endpoint |-> <<>>, region |-> <<>>,
   reqs |-> reqs, err |-> BackendError(context)]

moved_lenient(e, header, context, sent) ==
  IF header = None THEN Detected(e, e, UsEast1, sent)
  ELSE IF ~to_str_ok(header[1]) THEN NotDetected(e, context, sent)
  ELSE LET t == from_template(e, header[1])
       IN  IF t = None THEN NotDetected(e, context, sent)
           ELSE Detected(e, t[1], header[1], sent)

\* detect_region: the answer is 301
moved(e, header, context, sent) ==
  IF header = None THEN NotDetected(e, context, sent)
  ELSE IF ~to_str_ok(header[1]) THEN NotDetected(e, context, sent)
  ELSE LET t == from_template(e, header[1])
       IN  IF t = None THEN NotDetected(e, context, sent)
           ELSE Detected(e, t[1], header[1], sent)

\* a detect_region that takes the default region on an unexpected status
detect_region_default(b, bkt, context, probe) ==
  LET e == trim_bucket(with_scheme(b.endpoint), bkt)
      url == e \o <<"/">> \o bkt
      sent == <<Head_request(url)>>
  IN  IF b.region # None
      THEN LET t == from_template(e, b.region[1])
           IN  Detected(e, IF t # None THEN t[1] ELSE e, b.region[1], <<>>)
      ELSE IF probe.fail = "build" THEN NotDetected(e, context, <<>>)
      ELSE IF probe.fail = "send" THEN NotDetected(e, context, sent)
      ELSE IF probe.status \in {200, 403}
           THEN IF probe.header # None /\ ~to_str_ok(probe.header[1])
                THEN NotDetected(e, context, sent)
                ELSE Detected(e, e, region_or_default(probe.header), sent)
      ELSE IF probe.status = 301 THEN moved(e, probe.header, context, sent)
      ELSE Detected(e, e, UsEast1, sent)

\* Builder::detect_region
detect_region(b, bkt, context, probe) ==
  LET e == trim_bucket(with_scheme(b.endpoint), bkt)
      url == e \o <<"/">> \o bkt
      sent == <<Head_request(url)>>
  IN  IF b.region # None
      THEN LET t == from_template(e, b.region[1])
           IN  Detected(e, IF t # None THEN t[1] ELSE e, b.region[1], <<>>)
      ELSE IF probe.fail = "build" THEN NotDetected(e, context, <<>>)
      ELSE IF probe.fail = "send" THEN NotDetected(e, context, sent)
      ELSE IF probe.status \in {200, 403}
           THEN IF probe.header # None /\ ~to_str_ok(probe.header[1])
                THEN NotDetected(e, context, sent)
                ELSE Detected(e, e, region_or_default(probe.header), sent)
      ELSE IF probe.status = 301 THEN moved(e, probe.header, context, sent)
      ELSE NotDetected(e, context, sent)

----------------------------------------------------------------------------
(* S3 backend: Builder::finish *)

normalize_root_keep(r) ==
  IF r = None THEN <<"/">>
  ELSE LET v == join(split(r[1], "/"), <<"/">>)
           v1 == IF ~starts_with(v, <<"/">>) THEN <<"/">> \o v ELSE v
       IN  IF ~ends_with_slash(v1) THEN v1 \o <<"/">> ELSE v1

\* Builder::finish: the root, normalised
normalize_root(r) ==
  IF r = None THEN <<"/">>
  ELSE LET v == join(filter_nonempty(split(r[1], "/")), <<"/">>)
           v1 == IF ~starts_with(v, <<"/">>) THEN <<"/">> \o v ELSE v
       IN  IF ~ends_with_slash(v1) THEN v1 \o <<"/">> ELSE v1

\* str::parse::<HeaderValue>: no control character
parse_ok(v) == \A i \in 1..Len(v) : v[i] # "\n"

with_bucket_path(e, bkt, virtual_host) == e \o <<"/">> \o bkt

\* Builder::finish: the endpoint with the bucket in it
with_bucket(e, bkt, virtual_host) ==
  IF virtual_host
  THEN replace(e, <<"/", "/">>, <<"/", "/">> \o bkt \o <<".">>)
  ELSE e \o <<"/">> \o bkt

NotCalled == [ok |-> FALSE, base |-> <<>>, endpoint |-> <<>>, region |-> <<>>,
              reqs |-> <<>>, err |-> <<>>]

Built(be, d) == [ok |-> TRUE, backend |-> be, err |-> <<>>, detect |-> d]

NotBuilt(err, d) == [ok |-> FALSE, backend |-> NoBackend, err |-> err, detect |-> d]

\* what finish meets outside the Builder: the probe and the signer
FinishEnvs ==
  {[probe |-> p, signer_ok |-> TRUE] : p \in Probes}
    \cup {[probe |-> [fail |-> "none", status |-> 200, header |-> None],
           signer_ok |-> FALSE]}

\* the same, where only the root is looked at
RootEnvs ==
  {env \in FinishEnvs :
     env.probe.header = None /\ env.probe.status \in {0, 200}}

finish_result_any_bucket(b, env) ==
  LET rt == normalize_root(b.root)
      context == [bucket |-> b.bucket]
  IN  IF \E n \in SseNames : b.sse[n] # None /\ ~parse_ok(b.sse[n][1])
      THEN NotBuilt(BackendError(context), NotCalled)
      ELSE LET d == detect_region(b, b.bucket, context, env.probe)
           IN  IF ~d.ok THEN NotBuilt(d.err, d)
               ELSE LET e == with_bucket(d.endpoint, b.bucket,
                                         b.enable_virtual_host_style)
                    IN  IF ~env.signer_ok
                        THEN NotBuilt(BackendError([bucket |-> b.bucket,
                                                    endpoint |-> e,
                                                    region |-> d.region]), d)
                        ELSE Built([state |-> "built", root |-> rt,
                                    endpoint |-> e, region |-> d.region,
                                    bucket |-> b.bucket, sse |-> b.sse], d)

\* Builder::finish: the backend, or the error
finish_result(b, env) ==
  LET rt == normalize_root(b.root)
      context == [bucket |-> b.bucket]
  IN  IF b.bucket = <<>>
      THEN NotBuilt(BackendError([bucket |-> <<>>]), NotCalled)
      ELSE IF \E n \in SseNames : b.sse[n] # None /\ ~parse_ok(b.sse[n][1])
      THEN NotBuilt(BackendError(context), NotCalled)
      ELSE LET d == detect_region(b, b.bucket, context, env.probe)
           IN  IF ~d.ok THEN NotBuilt(d.err, d)
               ELSE LET e == with_bucket(d.endpoint, b.bucket,
                                         b.enable_virtual_host_style)
                    IN  IF ~env.signer_ok
                        THEN NotBuilt(BackendError([bucket |-> b.bucket,
                                                    endpoint |-> e,
                                                    region |-> d.region]), d)
                        ELSE Built([state |-> "built", root |-> rt,
                                    endpoint |-> e, region |-> d.region,
                                    bucket |-> b.bucket, sse |-> b.sse], d)

finish(env) ==
  /\ builder.state = "new"
  /\ LET r == finish_result(builder, env)
     IN  last' = [op |-> "finish", args |-> env, res |-> r,
                  log |-> fmt(builder)]
  /\ UNCHANGED <<inner, writers, stream, builder, backend, mutex, tasks>>

InitBuild ==
  /\ inner = EmptyMap
  /\ writers = [w \in AllWriters |-> NoWriter]
  /\ stream = NoStream
  /\ builder = DefaultBuilder
  /\ backend = NoBackend
  /\ mutex = NoLock
  /\ tasks = NoTasks
  /\ last = Call("build", <<>>)

\* the Builder's endpoint, region and bucket options
NextBuild ==
  \/ \E v \in BucketInputs : bucket(v)
  \/ \E v \in EndpointInputs : endpoint(v)
  \/ \E v \in RegionInputs : region(v)
  \/ \E v \in SseInputs : server_side_encryption(v)
  \/ enable_virtual_host_style
  \/ \E env \in FinishEnvs : finish(env)

SpecBuild == InitBuild /\ [][NextBuild]_vars

\* the credentials and the SSE options a caller passes
SecretInputs == { <<>>, <<"k">>, <<"s">> }

DebugEnv ==
  [probe |-> [fail |-> "none", status |-> 200, header |-> None],
   signer_ok |-> TRUE]

\* the Builder's credentials and SSE options
NextDebug ==
  \/ \E v \in SecretInputs : access_key_id(v)
  \/ \E v \in SecretInputs : secret_access_key(v)
  \/ \E v \in SecretInputs : server_side_encryption(v)
  \/ \E v \in SecretInputs : server_side_encryption_aws_kms_key_id(v)
  \/ \E v \in SecretInputs : server_side_encryption_customer_algorithm(v)
  \/ \E v \in SecretInputs : server_side_encryption_customer_key(v)
  \/ \E v \in SecretInputs : server_side_encryption_customer_key_md5(v)
  \/ disable_credential_loader
  \/ finish(DebugEnv)

SpecDebug == InitBuild /\ [][NextDebug]_vars

\* the Builder's root option
NextRoot ==
  \/ \E v \in RootInputs : root(v)
  \/ \E v \in BucketInputs : bucket(v)
  \/ \E env \in RootEnvs : finish(env)

SpecRoot == InitBuild /\ [][NextRoot]_vars

----------------------------------------------------------------------------
(* S3 backend: requests *)

\* mod constants: the header of each SSE option
SseHeader ==
  [n \in SseNames |->
     CASE n = "server_side_encryption" -> "x-amz-server-side-encryption"
       [] n = "server_side_encryption_aws_kms_key_id" ->
            "x-amz-server-side-encryption-aws-kms-key-id"
       [] n = "server_side_encryption_customer_algorithm" ->
            "x-amz-server-side-encryption-customer-algorithm"
       [] n = "server_side_encryption_customer_key" ->
            "x-amz-server-side-encryption-customer-key"
       [] n = "server_side_encryption_customer_key_md5" ->
            "x-amz-server-side-encryption-customer-key-md5"]

\* the options insert_sse_headers sets on writes only
WriteOnlySse ==
  {"server_side_encryption", "server_side_encryption_aws_kms_key_id"}

Header(name, value) == [name |-> name, value |-> value]

insert_sse_headers_always(be, is_write) ==
  {Header(SseHeader[n], be.sse[n][1]) : n \in {x \in SseNames : be.sse[x] # None}}

\* Backend::insert_sse_headers
insert_sse_headers(be, is_write) ==
  {Header(SseHeader[n], be.sse[n][1]) :
     n \in {x \in SseNames :
              be.sse[x] # None /\ (is_write \/ x \notin WriteOnlySse)}}

get_abs_path_rootless(be, path) ==
  IF path = <<"/">> THEN <<>> ELSE trim_start_matches(path, "/")

\* an absolute path that keeps the '/' the root begins with
get_abs_path_keep(be, path) ==
  IF path = <<"/">> THEN be.root ELSE be.root \o path

\* Backend::get_abs_path
get_abs_path(be, path) ==
  IF path = <<"/">>
  THEN trim_start_matches(be.root, "/")
  ELSE trim_start_matches(be.root \o path, "/")

get_rel_path_whole(be, p) == Some(<<"/">> \o p)

\* Backend::get_rel_path, None where the code is unreachable!
get_rel_path(be, p) ==
  LET path == <<"/">> \o p
  IN  IF starts_with(path, be.root)
      THEN Some(SubSeq(path, Len(be.root) + 1, Len(path)))
      ELSE None

\* what the signer, the client and the server do with a request
S3Statuses == {200, 201, 204, 206, 301, 403, 404, 500, 502, 503, 504}

Outcomes ==
  {[fail |-> "none", status |-> c] : c \in S3Statuses}
    \cup {[fail |-> f, status |-> 0] : f \in {"build", "sign", "send"}}

\* for write, which hands the request to the writer
WriteOutcomes == {o \in Outcomes : o.fail \in {"build", "sign"} \/ o.status = 200}

\* for stat, which also reads the headers of a 200 answer
StatOutcomes == Outcomes \cup {[fail |-> "header", status |-> 200]}

Request(method, url, headers) ==
  [method |-> method, url |-> url, headers |-> headers]

\* format!("{}/{}", self.endpoint, path)
object_url(be, p) == be.endpoint \o <<"/">> \o p

\* a request helper's result: the requests made, and the answer or error
Sent(reqs, out) == [reqs |-> reqs, err |-> <<>>, status |-> out.status]

Unsent(reqs, err) == [reqs |-> reqs, err |-> <<err>>, status |-> 0]

\* build, sign and send, as get_object, head_object and delete_object do
request(req, op, p, out) ==
  IF out.fail \in {"build", "sign"} THEN Unsent(<<>>, other(op, p))
  ELSE IF out.fail = "send" THEN Unsent(<<req>>, other(op, p))
  ELSE Sent(<<req>>, out)

\* the Range header of a read
range_headers(offset, size) ==
  IF offset # None \/ size # None
  THEN {Header("range", <<offset, size>>)}
  ELSE {}

\* Backend::get_object
get_object(be, p, offset, size, out) ==
  request(Request("GET", object_url(be, p),
                  range_headers(offset, size) \cup insert_sse_headers(be, FALSE)),
          "read", p, out)

\* Backend::put_object: the request, built and signed
put_object(be, p, size, out) ==
  LET req == Request("PUT", object_url(be, p),
                     {Header("content-length", <<size>>)}
                       \cup insert_sse_headers(be, TRUE))
  IN  IF out.fail \in {"build", "sign"}
      THEN Unsent(<<>>, other("write", p))
      ELSE Sent(<<req>>, out)

\* Backend::head_object
head_object(be, p, out) ==
  request(Request("HEAD", object_url(be, p), insert_sse_headers(be, FALSE)),
          "stat", p, out)

delete_object_sse(be, p, out) ==
  request(Request("DELETE", object_url(be, p), insert_sse_headers(be, TRUE)),
          "delete", p, out)

\* Backend::delete_object
delete_object(be, p, out) ==
  request(Request("DELETE", object_url(be, p), {}), "delete", p, out)

\* "?list-type=2&delimiter=/&prefix="
ListQuery ==
  <<"?", "l", "i", "s", "t", "-", "t", "y", "p", "e", "=", "2", "&", "d", "e", "l", "i", "m", "i", "t", "e", "r", "=", "/", "&", "p", "r", "e", "f", "i", "x", "=">>

\* "&continuation-token="
TokenQuery ==
  <<"&", "c", "o", "n", "t", "i", "n", "u", "a", "t", "i", "o", "n", "-", "t", "o", "k", "e", "n", "=">>

\* Backend::list_objects: the URL
list_url(be, p, token) ==
  be.endpoint \o ListQuery \o p
    \o (IF token # <<>> THEN TokenQuery \o token ELSE <<>>)

\* Backend::list_objects
list_objects(be, p, token, out) ==
  request(Request("GET", list_url(be, p, token), {}), "list", p, out)

parse_error_kind_flat(code) ==
  IF code = 404 THEN "NotFound"
  ELSE IF code = 403 THEN "PermissionDenied"
  ELSE "Other"

\* parse_error_kind
parse_error_kind(code) ==
  IF code = 404 THEN "NotFound"
  ELSE IF code = 403 THEN "PermissionDenied"
  ELSE IF code \in {500, 502, 503, 504} THEN "Interrupted"
  ELSE "Other"

\* io_util::parse_error_response, given parse_error_kind
parse_error_response(op, path, status) ==
  ObjectError(parse_error_kind(status), op, path)

----------------------------------------------------------------------------
(* S3 backend: Accessor operations *)

S3Paths == {<<"/">>, <<>>, <<"a">>, <<"a", "/">>, <<"/", "a">>}

S3DataPaths == {<<"/">>, <<"a">>, <<"/", "a">>}

S3Ranges == {[offset |-> None, size |-> None], [offset |-> Some(0), size |-> Some(1)]}

S3Sizes == {1}

\* the increment_counter! calls in the body of each Accessor operation, in
\* order: Backend::write has none
increment_counter(op) ==
  CASE op = "create" -> <<"opendal_s3_create_requests">>
    [] op = "read" -> <<"opendal_s3_read_requests">>
    [] op = "write" -> <<>>
    [] op = "stat" -> <<"opendal_s3_stat_requests">>
    [] op = "delete" -> <<"opendal_s3_delete_requests">>
    [] op = "list" -> <<"opendal_s3_list_requests">>

\* the call made last on the backend, the counters it incremented, the
\* requests it made, its result
S3Record(op, path, args, out, reqs, res) ==
  [op |-> op, path |-> path, args |-> args, out |-> out, reqs |-> reqs,
   res |-> res, counted |-> increment_counter(op)]

\* Backend::create: the result
s3_create_result(path, h, out) ==
  IF h.err # <<>> THEN h.err[1]
  ELSE IF out.fail = "send" THEN other("read", path)
  ELSE IF h.status \in {201, 200} THEN Ok
  ELSE parse_error_response("create", path, h.status)

\* Backend::create
s3_create(path, out) ==
  /\ backend.state = "built"
  /\ LET h == put_object(backend, get_abs_path(backend, path), 0, out)
     IN  last' = S3Record("create", path, <<>>, out, h.reqs,
                          s3_create_result(path, h, out))
  /\ UNCHANGED <<inner, writers, stream, builder, backend, mutex, tasks>>

\* Backend::read: the result
s3_read_result(path, h) ==
  IF h.err # <<>> THEN h.err[1]
  ELSE IF h.status \in {200, 206} THEN [kind |-> "Ok", value |-> "reader"]
  ELSE parse_error_response("read", path, h.status)

\* Backend::read
s3_read(path, rng, out) ==
  /\ backend.state = "built"
  /\ LET h == get_object(backend, get_abs_path(backend, path),
                         rng.offset, rng.size, out)
     IN  last' = S3Record("read", path, rng, out, h.reqs,
                          s3_read_result(path, h))
  /\ UNCHANGED <<inner, writers, stream, builder, backend, mutex, tasks>>

\* Backend::write
s3_write(path, size, out) ==
  /\ backend.state = "built"
  /\ LET h == put_object(backend, get_abs_path(backend, path), size, out)
     IN  last' = S3Record("write", path, [size |-> size], out, h.reqs,
                          IF h.err # <<>> THEN h.err[1]
                          ELSE [kind |-> "Ok", value |-> "writer"])
  /\ UNCHANGED <<inner, writers, stream, builder, backend, mutex, tasks>>

DirMeta == [kind |-> "Ok", mode |-> "DIR", content_length |-> None]

s3_stat_result_strict(path, p, h, out) ==
  IF h.err # <<>> THEN h.err[1]
  ELSE IF h.status = 200
       THEN IF out.fail = "header" THEN other("stat", p)
            ELSE [kind |-> "Ok",
                  mode |-> IF ends_with_slash(p) THEN "DIR" ELSE "FILE",
                  content_length |-> None]
  ELSE parse_error_response("stat", path, h.status)

\* Backend::stat: the result of the HEAD request
s3_stat_result(path, p, h, out) ==
  IF h.err # <<>> THEN h.err[1]
  ELSE IF h.status = 200
       THEN IF out.fail = "header" THEN other("stat", p)
            ELSE [kind |-> "Ok",
                  mode |-> IF ends_with_slash(p) THEN "DIR" ELSE "FILE",
                  content_length |-> None]
  ELSE IF h.status = 404 /\ ends_with_slash(p) THEN DirMeta
  ELSE parse_error_response("stat", path, h.status)

\* Backend::stat
s3_stat(path, out) ==
  /\ backend.state = "built"
  /\ LET p == get_abs_path(backend, path)
         rel == get_rel_path(backend, p)
         h == head_object(backend, p, out)
     IN  last' = IF rel = None
                 THEN S3Record("stat", path, <<>>, out, <<>>, [kind |-> "Panic"])
                 ELSE IF rel[1] = <<>>
                 THEN S3Record("stat", path, <<>>, out, <<>>, DirMeta)
                 ELSE S3Record("stat", path, <<>>, out, h.reqs,
                               s3_stat_result(path, p, h, out))
  /\ UNCHANGED <<inner, writers, stream, builder, backend, mutex, tasks>>

delete_accepts_ok(status) == status \in {200, 204}

\* Backend::delete: the status that is a success
delete_accepts(status) == status = 204

\* Backend::delete: the result
s3_delete_result(path, h) ==
  IF h.err # <<>> THEN h.err[1]
  ELSE IF delete_accepts(h.status) THEN Ok
  ELSE parse_error_response("delete", path, h.status)

\* Backend::delete
s3_delete(path, out) ==
  /\ backend.state = "built"
  /\ LET h == delete_object(backend, get_abs_path(backend, path), out)
     IN  last' = S3Record("delete", path, <<>>, out, h.reqs,
                          s3_delete_result(path, h))
  /\ UNCHANGED <<inner, writers, stream, builder, backend, mutex, tasks>>

\* dir_stream::DirStream: its path, the token of the next page, exhausted
S3DirStream(dir, token, done) ==
  [kind |-> "Ok", stream |-> dir, token |-> token, done |-> done]

\* Backend::list
s3_list(path) ==
  /\ backend.state = "built"
  /\ LET p == get_abs_path(backend, path)
         dir == IF ~ends_with_slash(p) /\ p # <<>> THEN p \o <<"/">> ELSE p
     IN  last' = S3Record("list", path, <<>>,
                          [fail |-> "none", status |-> 0], <<>>,
                          S3DirStream(dir, <<>>, FALSE))
  /\ UNCHANGED <<inner, writers, stream, builder, backend, mutex, tasks>>

\* the SSE options of the backends looked at
NoSse == [n \in SseNames |-> None]

CustomerSse ==
  [n \in SseNames |->
     CASE n = "server_side_encryption_customer_algorithm" -> Some(Aes256)
       [] n = "server_side_encryption_customer_key" -> Some(<<"k">>)
       [] n = "server_side_encryption_customer_key_md5" -> Some(<<"m">>)
       [] OTHER -> None]

FullSse ==
  [n \in SseNames |->
     CASE n = "server_side_encryption" -> Some(Aes256)
       [] n = "server_side_encryption_aws_kms_key_id" -> Some(<<"i">>)
       [] n = "server_side_encryption_customer_algorithm" -> Some(Aes256)
       [] n = "server_side_encryption_customer_key" -> Some(<<"k">>)
       [] n = "server_side_encryption_customer_key_md5" -> Some(<<"m">>)]

SseConfigs == {NoSse, CustomerSse, FullSse}

\* Builders with a bucket and a region, and the backends finish makes of them
S3Builders ==
  {[DefaultBuilder EXCEPT !.bucket = BucketTest, !.region = Some(UsEast2),
                          !.root = r, !.sse = c] :
     r \in {None, Some(<<"a">>)}, c \in SseConfigs}

S3Backends ==
  {finish_result(b, [probe |-> [fail |-> "none", status |-> 200, header |-> None],
                     signer_ok |-> TRUE]).backend : b \in S3Builders}

InitS3 ==
  /\ inner = EmptyMap
  /\ writers = [w \in AllWriters |-> NoWriter]
  /\ stream = NoStream
  /\ builder = NoBuilder
  /\ backend \in S3Backends
  /\ mutex = NoLock
  /\ tasks = NoTasks
  /\ last = Call("finish", <<>>)

NextS3 ==
  \/ \E path \in S3DataPaths, out \in Outcomes : s3_create(path, out)
  \/ \E path \in S3DataPaths, rng \in S3Ranges, out \in Outcomes :
       s3_read(path, rng, out)
  \/ \E path \in S3DataPaths, size \in S3Sizes, out \in WriteOutcomes :
       s3_write(path, size, out)
  \/ \E path \in S3Paths, out \in StatOutcomes : s3_stat(path, out)
  \/ \E path \in S3Paths, out \in Outcomes : s3_delete(path, out)
  \/ \E path \in S3Paths : s3_list(path)

SpecS3 == InitS3 /\ [][NextS3]_vars

----------------------------------------------------------------------------
(* S3 backend: paths *)

MaxPathLen == 3

\* the paths a caller passes
PathInputs == UNION {[1..k -> RootChars] : k \in 0..MaxPathLen}

\* the backends finish builds from the roots a caller passes
PathBackends ==
  {finish_result([DefaultBuilder EXCEPT !.bucket = BucketTest,
                                        !.region = Some(UsEast2), !.root = r],
                 [probe |-> [fail |-> "none", status |-> 200, header |-> None],
                  signer_ok |-> TRUE]).backend : r \in Options(RootInputs)}

\* Backend::stat: self.get_rel_path(&p) of p = self.get_abs_path(args.path())
rel_of_abs(path) ==
  /\ backend.state = "built"
  /\ LET p == get_abs_path(backend, path)
     IN  last' = [op |-> "get_rel_path", path |-> path, abs |-> p,
                  res |-> get_rel_path(backend, p)]
  /\ UNCHANGED <<inner, writers, stream, builder, backend, mutex, tasks>>

InitPath ==
  /\ inner = EmptyMap
  /\ writers = [w \in AllWriters |-> NoWriter]
  /\ stream = NoStream
  /\ builder = NoBuilder
  /\ backend \in PathBackends
  /\ mutex = NoLock
  /\ tasks = NoTasks
  /\ last = Call("finish", <<>>)

NextPath == \E path \in PathInputs : rel_of_abs(path)

SpecPath == InitPath /\ [][NextPath]_vars

----------------------------------------------------------------------------
(* S3 backend: properties of the Builder *)

\* the last call was a finish that reached detect_region
DetectCalled == last.op = "finish" /\ last.res.detect # NotCalled

\* "https://s3.<rgn>.amazonaws.com"
Regional(rgn) == TemplateHead \o rgn \o TemplateTail

\* C13: with a region supplied, detect_region sends no request and returns
\* the supplied region; the endpoint it returns is the regional form of
\* the template when the endpoint (with scheme, without bucket) is the
\* template's key, and that endpoint as it is otherwise.
ExplicitRegion ==
  (DetectCalled /\ builder.region # None) =>
    LET d == last.res.detect
    IN  /\ d.ok
        /\ d.reqs = <<>>
        /\ d.region = builder.region[1]
        /\ d.endpoint = IF d.base = S3Global
                        THEN Regional(builder.region[1])
                        ELSE d.base

ExplicitRegionWitness ==
  /\ DetectCalled
  /\ builder.region = Some(UsEast2)
  /\ last.res.detect.base = S3Global
  /\ last.res.detect.endpoint = Regional(UsEast2)
  /\ last.res.detect.reqs = <<>>

\* the probe was answered with one of these statuses, no region supplied
Answered(statuses) ==
  /\ DetectCalled
  /\ builder.region = None
  /\ last.args.probe.fail = "none"
  /\ last.args.probe.status \in statuses

\* the header is absent or is text
Readable(h) == h = None \/ \A i \in DOMAIN h[1] : h[1][i] # Byte80

\* C14 as stated: on a 200 or 403 answer detect_region returns the
\* endpoint unchanged, with the region of the x-amz-bucket-region header,
\* or with "us-east-1" when the header is absent.
ProbeAccepted ==
  Answered({200, 403}) =>
    LET d == last.res.detect
        h == last.args.probe.header
    IN  /\ d.ok
        /\ d.endpoint = d.base
        /\ d.region = IF h = None THEN UsEast1 ELSE h[1]

\* C14 amended: the same, for a header whose value is text; a header value
\* that is not text makes detect_region fail.
ProbeAcceptedText ==
  Answered({200, 403}) =>
    LET d == last.res.detect
        h == last.args.probe.header
    IN  IF Readable(h)
        THEN /\ d.ok
             /\ d.endpoint = d.base
             /\ d.region = IF h = None THEN UsEast1 ELSE h[1]
        ELSE ~d.ok

ProbeAcceptedTextWitness ==
  /\ Answered({403})
  /\ last.args.probe.header = None
  /\ last.res.detect.ok
  /\ last.res.detect.region = UsEast1

\* C15 as stated: on a 301 answer detect_region fails when the header is
\* absent, fails when the endpoint has no template, and otherwise returns
\* the template with {region} replaced by the header value, and that region.
ProbeMoved ==
  Answered({301}) =>
    LET d == last.res.detect
        h == last.args.probe.header
    IN  IF h = None \/ d.base # S3Global
        THEN ~d.ok
        ELSE d.ok /\ d.endpoint = Regional(h[1]) /\ d.region = h[1]

\* C15 amended: the same, and detect_region also fails when the header
\* value is not text.
ProbeMovedText ==
  Answered({301}) =>
    LET d == last.res.detect
        h == last.args.probe.header
    IN  IF h = None \/ ~Readable(h) \/ d.base # S3Global
        THEN ~d.ok
        ELSE d.ok /\ d.endpoint = Regional(h[1]) /\ d.region = h[1]

ProbeMovedTextWitness ==
  /\ Answered({301})
  /\ last.args.probe.header = Some(UsEast2)
  /\ last.res.detect.ok
  /\ last.res.detect.endpoint = Regional(UsEast2)

\* test_detect_region: endpoint_cases
ScenarioEndpoints ==
  { None, Some(<<"s", "3">> \o TemplateTail), Some(S3Global),
    Some(Regional(UsEast2)) }

\* the result every scenario expects
ScenarioResult ==
  /\ last.res.detect.ok
  /\ last.res.detect.endpoint = Regional(UsEast2)
  /\ last.res.detect.region = UsEast2

\* C16 as stated: for bucket "test", each of the four endpoints, and the
\* region either set to "us-east-2" or not set, the server then naming
\* us-east-2 in its answer to the probe, detect_region returns
\* ("https://s3.us-east-2.amazonaws.com", "us-east-2").
RegionScenarios ==
  ( /\ DetectCalled
    /\ builder.bucket = BucketTest
    /\ builder.endpoint \in ScenarioEndpoints
    /\ \/ builder.region = Some(UsEast2)
       \/ /\ builder.region = None
          /\ last.args.probe.fail = "none"
          /\ last.args.probe.header = Some(UsEast2) )
  => ScenarioResult

\* C16 amended: with the region not set, the server names us-east-2 in a
\* 301 answer when the endpoint is the global one (not set, with or
\* without scheme) and in a 200 or 403 answer when it is the regional one.
RegionScenariosByStatus ==
  ( /\ DetectCalled
    /\ builder.bucket = BucketTest
    /\ builder.endpoint \in ScenarioEndpoints
    /\ \/ builder.region = Some(UsEast2)
       \/ /\ builder.region = None
          /\ last.args.probe.fail = "none"
          /\ last.args.probe.header = Some(UsEast2)
          /\ IF builder.endpoint = Some(Regional(UsEast2))
             THEN last.args.probe.status \in {200, 403}
             ELSE last.args.probe.status = 301 )
  => ScenarioResult

RegionScenariosByStatusWitness ==
  /\ DetectCalled
  /\ builder.bucket = BucketTest
  /\ builder.endpoint = Some(<<"s", "3">> \o TemplateTail)
  /\ builder.region = None
  /\ last.args.probe.status = 301
  /\ last.args.probe.header = Some(UsEast2)
  /\ ScenarioResult

\* s has sub in it
contains(s, sub) ==
  \E i \in 1..(Len(s) + 1 - Len(sub)) : SubSeq(s, i, i + Len(sub) - 1) = sub

\* C17: the endpoint option loses its trailing '/' characters; in
\* detect_region an endpoint without a URI scheme gets "https://" in front,
\* and the label "<bucket>." in front of the host is taken out.
EndpointNormalised ==
  /\ (last.op = "endpoint" /\ last.args # <<>>) =>
       /\ builder.endpoint # None
       /\ builder.endpoint[1] = trim_end_matches(last.args, "/")
  /\ (DetectCalled /\ builder.endpoint # None) =>
       LET e == builder.endpoint[1]
           label == SchemeMark \o builder.bucket \o <<".">>
           full == IF contains(e, SchemeMark) THEN e ELSE Https \o e
       IN  /\ starts_with(last.res.detect.base, Https) \/ contains(e, SchemeMark)
           /\ last.res.detect.base = replace(full, label, SchemeMark)
           /\ ~contains(last.res.detect.base, label)

\* C18: the root of a backend that finish built is "/", or begins and ends
\* with '/' and has no empty segment, whatever root the Builder was given.
RootInvariant ==
  (last.op = "finish" /\ last.res.ok) =>
    LET r == last.res.backend.root
    IN  \/ r = <<"/">>
        \/ /\ Len(r) >= 2
           /\ r[1] = "/"
           /\ r[Len(r)] = "/"
           /\ \A i \in 1..(Len(r) - 1) : ~(r[i] = "/" /\ r[i + 1] = "/")

RootInvariantWitness ==
  /\ last.op = "finish"
  /\ last.res.ok
  /\ builder.root = Some(<<"a", "/", "/", "a">>)
  /\ last.res.backend.root = <<"/", "a", "/", "a", "/">>

\* C24: finish with an empty bucket name fails with an error of kind
\* Other that carries the backend context, and sends no request for region
\* detection, whatever the other options are.
BucketRequired ==
  (last.op = "finish" /\ builder.bucket = <<>>) =>
    /\ ~last.res.ok
    /\ last.res.backend = NoBackend
    /\ last.res.err.kind = "Other"
    /\ last.res.err.context = [bucket |-> <<>>]
    /\ last.res.detect = NotCalled
    /\ last.res.detect.reqs = <<>>

BucketRequiredWitness ==
  /\ last.op = "finish"
  /\ builder.bucket = <<>>
  /\ builder.endpoint # None
  /\ builder.region = None
  /\ last.args.probe.status = 200
  /\ ~last.res.ok
  /\ last.res.detect.reqs = <<>>

\* where e reads scheme://host, the place of "://" in it; 0 otherwise
SchemeEnd(e) ==
  LET at == {i \in 1..Len(e) :
               /\ i + 2 <= Len(e)
               /\ SubSeq(e, i, i + 2) = SchemeMark
               /\ \A j \in (1..(i - 1)) \cup ((i + 3)..Len(e)) : e[j] # "/"}
  IN  IF at = {} THEN 0 ELSE CHOOSE i \in at : TRUE

\* C25: where region detection returned the endpoint scheme://host, the
\* endpoint of the backend is scheme://bucket.host with
\* enable_virtual_host_style set, and scheme://host/bucket otherwise.
FinalEndpoint ==
  (last.op = "finish" /\ last.res.ok /\ SchemeEnd(last.res.detect.endpoint) > 0) =>
    LET e == last.res.detect.endpoint
        i == SchemeEnd(e)
        scheme == SubSeq(e, 1, i - 1)
        host == SubSeq(e, i + 3, Len(e))
    IN  last.res.backend.endpoint =
          IF builder.enable_virtual_host_style
          THEN scheme \o SchemeMark \o builder.bucket \o <<".">> \o host
          ELSE scheme \o SchemeMark \o host \o <<"/">> \o builder.bucket

FinalEndpointWitness ==
  /\ last.op = "finish"
  /\ last.res.ok
  /\ builder.enable_virtual_host_style
  /\ builder.bucket = BucketTest
  /\ last.res.backend.endpoint
       = Https \o BucketTest \o <<".", "s", "3", ".">> \o UsEast2 \o TemplateTail

\* the probe was not sent, or its answer is none of 200, 403 and 301
Unanswered ==
  /\ DetectCalled
  /\ builder.region = None
  /\ \/ last.args.probe.fail \in {"build", "send"}
     \/ last.args.probe.status \notin {200, 403, 301}

\* C33: with no region supplied, when the probe cannot be sent or its
\* answer has a status other than 200, 403 and 301, detect_region fails with
\* an error of kind Other that carries the backend context, and finish
\* returns that error and no backend.
ProbeRefused ==
  Unanswered =>
    /\ ~last.res.detect.ok
    /\ last.res.detect.err.kind = "Other"
    /\ last.res.detect.err.context = [bucket |-> builder.bucket]
    /\ ~last.res.ok
    /\ last.res.backend = NoBackend
    /\ last.res.err = last.res.detect.err

\* the probe was sent and answered 404
ProbeRefusedWitness ==
  /\ Unanswered
  /\ last.args.probe.fail = "none"
  /\ last.args.probe.status = 404
  /\ Len(last.res.detect.reqs) = 1

----------------------------------------------------------------------------
(* S3 backend: properties of the operations *)

\* the last call was one of these operations of the backend
S3Called(ops) == backend.state = "built" /\ last.op \in ops

\* the server answered the request of the last call
S3Answered(ops) ==
  S3Called(ops) /\ last.reqs # <<>> /\ last.out.fail = "none"

\* the kind of each status, as a table
StatusKind ==
  [c \in S3Statuses |->
     CASE c = 404 -> "NotFound"
       [] c = 403 -> "PermissionDenied"
       [] c = 500 -> "Interrupted"
       [] c = 502 -> "Interrupted"
       [] c = 503 -> "Interrupted"
       [] c = 504 -> "Interrupted"
       [] OTHER -> "Other"]

\* C11: parse_error_kind maps 404 to NotFound, 403 to PermissionDenied,
\* each of 500, 502, 503 and 504 to Interrupted, and every other status to
\* Other.
StatusMapping ==
  S3Answered({"create", "read", "stat", "delete"}) =>
    parse_error_kind(last.out.status) = StatusKind[last.out.status]

StatusMappingWitness ==
  /\ S3Answered({"read"})
  /\ last.out.status = 503
  /\ last.res.kind = "Interrupted"

\* C12: delete succeeds exactly when the server answers the DELETE request
\* with 204; every other status, 200 and 404 among them, gives an error
\* whose kind is the one the status mapping names.
DeleteAccepts ==
  S3Called({"delete"}) =>
    /\ last.res = Ok <=> (S3Answered({"delete"}) /\ last.out.status = 204)
    /\ (S3Answered({"delete"}) /\ last.out.status # 204) =>
         /\ last.res.kind = StatusKind[last.out.status]
         /\ last.res.label = "delete"
    /\ last.reqs # <<>> => last.reqs[1].method = "DELETE"

DeleteAcceptsWitness ==
  /\ S3Answered({"delete"})
  /\ last.out.status = 200
  /\ last.res.kind = "Other"

\* the key in the URL of the request the last call made
RequestKey ==
  SubSeq(last.reqs[1].url, Len(backend.endpoint) + 2, Len(last.reqs[1].url))

\* s without the '/' characters it begins with
without_leading(s) ==
  LET n == Cardinality({i \in 1..Len(s) : \A j \in 1..i : s[j] = "/"})
  IN  SubSeq(s, n + 1, Len(s))

\* C19 as stated: the key in the request URL of every operation is root
\* concatenated with p, with the leading '/' removed; for p = "/" it is
\* root without its leading '/'.
AbsoluteKey ==
  (S3Called({"create", "read", "write", "stat", "delete"}) /\ last.reqs # <<>>) =>
    /\ starts_with(last.reqs[1].url, backend.endpoint \o <<"/">>)
    /\ RequestKey = IF last.path = <<"/">>
                    THEN Tail(backend.root)
                    ELSE Tail(backend.root \o last.path)

\* C19 amended: the key is root concatenated with p, with every leading '/'
\* removed; for p = "/" it is root without its leading '/'.
AbsoluteKeyTrimmed ==
  (S3Called({"create", "read", "write", "stat", "delete"}) /\ last.reqs # <<>>) =>
    /\ starts_with(last.reqs[1].url, backend.endpoint \o <<"/">>)
    /\ RequestKey = IF last.path = <<"/">>
                    THEN Tail(backend.root)
                    ELSE without_leading(backend.root \o last.path)

AbsoluteKeyTrimmedWitness ==
  /\ S3Called({"read"})
  /\ last.reqs # <<>>
  /\ backend.root = <<"/", "a", "/">>
  /\ last.path = <<"a">>
  /\ RequestKey = <<"a", "/", "a">>

\* the headers of the x-amz-server-side-encryption family in a request
SseOf(req) ==
  {h \in req.headers : \E n \in SseNames : h.name = SseHeader[n]}

\* the headers that the configured options of a family ask for
Configured(names) ==
  {Header(SseHeader[n], backend.sse[n][1]) :
     n \in {x \in names : backend.sse[x] # None}}

CustomerNames ==
  { "server_side_encryption_customer_algorithm",
    "server_side_encryption_customer_key",
    "server_side_encryption_customer_key_md5" }

\* C20: a GET or HEAD request of read or stat carries the configured
\* SSE-customer headers and neither x-amz-server-side-encryption nor
\* x-amz-server-side-encryption-aws-kms-key-id; a PUT request of write or
\* create carries every configured header of both families.
SsePolicy ==
  /\ (S3Called({"read", "stat"}) /\ last.reqs # <<>>) =>
       /\ last.reqs[1].method \in {"GET", "HEAD"}
       /\ SseOf(last.reqs[1]) = Configured(CustomerNames)
       /\ \A h \in last.reqs[1].headers :
            h.name \notin {"x-amz-server-side-encryption",
                           "x-amz-server-side-encryption-aws-kms-key-id"}
  /\ (S3Called({"write", "create"}) /\ last.reqs # <<>>) =>
       /\ last.reqs[1].method = "PUT"
       /\ SseOf(last.reqs[1]) = Configured(SseNames)

SsePolicyWitness ==
  /\ S3Called({"read"})
  /\ last.reqs # <<>>
  /\ backend.sse = FullSse
  /\ Cardinality(SseOf(last.reqs[1])) = 3

\* the requests list_objects makes for the pages of a directory
ListRequests ==
  {list_objects(backend, <<"a", "/">>, t, o).reqs :
     t \in {<<>>, <<"t">>}, o \in Outcomes} \ {<<>>}

\* the requests to look at: the one of the last call, and those of
\* list_objects
RequestsOf(ops) ==
  IF S3Called(ops) /\ last.reqs # <<>> THEN {last.reqs} ELSE {}

StatAnswered ==
  /\ S3Called({"stat"})
  /\ last.reqs # <<>>
  /\ last.out.fail \in {"none", "header"}

\* the mode of a key
ModeOf(key) == IF key # <<>> /\ key[Len(key)] = "/" THEN "DIR" ELSE "FILE"

\* the result of stat on an answer other than 200
StatRefused ==
  IF last.out.status = 404
  THEN IF ModeOf(RequestKey) = "DIR"
       THEN last.res.kind = "Ok" /\ last.res.mode = "DIR"
       ELSE last.res.kind = "NotFound"
  ELSE last.res.kind = StatusKind[last.out.status]

\* C22 as stated: for a path that is not the root, a 200 answer gives a
\* metadata with mode DIR if the key ends in '/' and FILE otherwise; a 404
\* answer gives a DIR metadata for a key ending in '/' and NotFound for any
\* other key; every other status gives the error kind of the status mapping.
StatByStatus ==
  StatAnswered =>
    IF last.out.status = 200
    THEN last.res.kind = "Ok" /\ last.res.mode = ModeOf(RequestKey)
    ELSE StatRefused

\* C22 amended: the same, where the Content-Length, ETag and Last-Modified
\* headers of the 200 answer can be parsed; a 200 answer with a header that
\* cannot be parsed makes stat fail with Other.
StatByStatusParsed ==
  StatAnswered =>
    IF last.out.status = 200
    THEN IF last.out.fail = "header"
         THEN last.res.kind = "Other"
         ELSE last.res.kind = "Ok" /\ last.res.mode = ModeOf(RequestKey)
    ELSE StatRefused

StatByStatusParsedWitness ==
  /\ StatAnswered
  /\ last.out.status = 404
  /\ RequestKey = <<"a", "/", "a", "/">>
  /\ last.res.kind = "Ok"
  /\ last.res.mode = "DIR"

\* C23: stat of the root, given as "/" or as the empty string, returns a
\* metadata with mode DIR and sends no request, whatever the root is.
RootStat ==
  (S3Called({"stat"}) /\ last.path \in {<<"/">>, <<>>}) =>
    /\ last.res.kind = "Ok"
    /\ last.res.mode = "DIR"
    /\ last.reqs = <<>>

RootStatWitness ==
  /\ S3Called({"stat"})
  /\ last.path = <<>>
  /\ backend.root = <<"/", "a", "/">>
  /\ last.out.fail = "send"
  /\ last.res = DirMeta
  /\ last.reqs = <<>>

\* C34: for every normalised root and every path p, get_rel_path applied to
\* get_abs_path(p) finds the root at the start of '/' followed by the
\* absolute key, returns p when p does not start with '/', and returns the
\* empty string when p is "/" or empty.
PathRoundTrip ==
  last.op = "get_rel_path" =>
    /\ last.res # None
    /\ starts_with(<<"/">> \o last.abs, backend.root)
    /\ ~starts_with(last.path, <<"/">>) => last.res = Some(last.path)
    /\ last.path \in {<<"/">>, <<>>} => last.res = Some(<<>>)

\* root "/a/a/", path "a/": the absolute key is "a/a/a/"
PathRoundTripWitness ==
  /\ last.op = "get_rel_path"
  /\ backend.root = <<"/", "a", "/", "a", "/">>
  /\ last.path = <<"a", "/">>
  /\ last.abs = <<"a", "/", "a", "/", "a", "/">>
  /\ last.res = Some(<<"a", "/">>)

\* the counter keyed by the name of an operation
RequestCounter(op) == "opendal_s3_" \o op \o "_requests"

\* C35: each call of create, read, write, stat, delete or list increments
\* the request counter of that operation once and no other counter.
RequestCounted ==
  S3Called({"create", "read", "write", "stat", "delete", "list"}) =>
    last.counted = <<RequestCounter(last.op)>>

\* the options whose values Debug hides
SecretNames == {"access_key_id", "secret_access_key"} \cup SseNames

SecretValues == SecretInputs \ {<<>>}

\* the Builder b with the value f[n] in every hidden option n that is set
WithSecrets(b, f) ==
  [b EXCEPT
     !.access_key_id =
        IF @ # None THEN Some(f["access_key_id"]) ELSE @,
     !.secret_access_key =
        IF @ # None THEN Some(f["secret_access_key"]) ELSE @,
     !.sse = [n \in SseNames |-> IF @[n] # None THEN Some(f[n]) ELSE @[n]]]

\* C36: the Debug output that finish logs is the Debug output of every
\* Builder that differs from this one only in the values of access_key_id,
\* secret_access_key or the server_side_encryption options that are set.
DebugRedacted ==
  last.op = "finish" =>
    /\ last.log = fmt(builder)
    /\ \A f \in [SecretNames -> SecretValues] :
         fmt(WithSecrets(builder, f)) = last.log

\* every hidden option is set, and not all to the same value
DebugRedactedWitness ==
  /\ last.op = "finish"
  /\ builder.access_key_id = Some(<<"k">>)
  /\ builder.secret_access_key = Some(<<"s">>)
  /\ \A n \in SseNames : builder.sse[n] # None
  /\ Len(last.log) = 13

====
